---- MODULE Spec2Model ----
(***************************************************************************)
(* Model of the centring engine of GenericDiffractometer                   *)
(* (src/GenericDiffractometer.py): the centring session state machine,     *)
(* the procedure tasks and their completion handler centring_done, the     *)
(* motor move task, the readiness event and the events emitted to          *)
(* observers.                                                              *)
(*                                                                         *)
(* Scheduling is gevent's: cooperative, one handler runs until it          *)
(* suspends.  Each action below is one handler, or one handler from a      *)
(* suspension point to the next.  A callback given to Greenlet.link runs   *)
(* as a task of its own once the greenlet has ended.                       *)
(***************************************************************************)
EXTENDS Naturals, Integers, Sequences, FiniteSets, TLC

\* ------------------------------------------------------------- bounds
\* calls of Start, Cancel, Accept, Reject and get_centring_status made in
\* one run
MaxCalls == 2

\* direct calls of move_motors made in one run
MaxMoves == 2

\* calls of unlock_door_interlock made in one run
MaxUnlocks == 2

\* XRF spectrum acquisitions started in one run
MaxScans == 3

\* pixel coordinates of the beam position and of the zoom centre: 0..MaxCoord
MaxCoord == 2

\* the pixels_per_mm scales: 1..MaxScale
MaxScale == 2

\* "Manual 3-click": the points the manual procedure collects
NUM_CLICKS == 3

\* ------------------------------------------------------------- names
CENTRING_METHOD_MANUAL == "Manual 3-click"
CENTRING_METHOD_AUTO == "Computer automatic"
CENTRING_METHOD_MOVE_TO_BEAM == "Move to beam"
\* a method name that is no key of centring_methods
UNKNOWN_METHOD == "Unknown method"
None == "None"

HEAD_TYPE_MINIKAPPA == "MiniKappa"
HEAD_TYPE_PLATE == "Plate"

\* the keys of self.centring_methods
centring_methods ==
    {CENTRING_METHOD_MANUAL, CENTRING_METHOD_AUTO, CENTRING_METHOD_MOVE_TO_BEAM}

Methods == centring_methods \cup {UNKNOWN_METHOD}

Sessions == 1..MaxCalls

VARIABLES
    current_centring_method,     \* None or the method of the active session
    current_centring_procedure,  \* 0 (None) or the session whose greenlet it is
    centring_status,             \* the status dict, a record with the dict's keys
    ready_event,                 \* the flag of the gevent Event
    user_clicked_event,          \* the AsyncResult: "unset" or "set"
    head_type,                   \* configuration: MiniKappa or Plate
    moving,                      \* the motors whose move is in progress
    mm,                          \* a direct call of move_motors: where it
                                 \* is, and the motors it issued moves to
    calib,                       \* beam_position, zoom_centre and the two
                                 \* pixels_per_mm scales
    current_motor_positions,     \* the dict get_positions fills and returns
    motor_pos_keys,              \* what the centring procedures key their
                                 \* result by: "objects" or "names"
    door,                        \* the EMBLDoorInterlock object, a record of
                                 \* its attributes and its spawned tasks
    xfe,                         \* the XfeSpectrum object, a record of its
                                 \* attributes, its task and its signals
    current_state,               \* the device state is_ready() tests
    move_to_motors_positions_procedure, \* 0 (None) or the session that spawned it
    proc,       \* proc[s]: the procedure greenlet of session s
    done,       \* done[s]: where the completion handler centring_done of s is
    mv,         \* mv[s]: the move_motors greenlet spawned by centring_done of s
    waiters,    \* sessions whose Start call is suspended in ready_event.wait()
    woken,      \* waiters a set() has scheduled to resume
    events,     \* every event emitted and every status handed to a caller,
                \* in order
    call,       \* call[s]: the Start call that began session s, and the Cancel
                \* call made while its procedure was running
    nSessions,  \* Start calls that passed the guard
    nStartCalls,\* all Start calls
    nCalls,     \* external calls made
    now         \* the wall clock: the time of the last reading

vars == <<current_centring_method, current_centring_procedure, centring_status,
          ready_event, user_clicked_event, head_type, moving, mm, calib,
          current_motor_positions, motor_pos_keys, door, xfe, current_state,
          move_to_motors_positions_procedure, proc, done, mv, waiters, woken,
          events, call, nSessions, nStartCalls, nCalls, now>>

\* the calibration and what was computed from it
calib_vars == <<calib, current_motor_positions>>

\* the variables of the centring engine
engine_vars ==
    <<current_centring_method, current_centring_procedure, centring_status,
      ready_event, user_clicked_event, head_type,
      move_to_motors_positions_procedure, proc, done, mv, waiters, woken,
      events, call, nSessions, nStartCalls, nCalls, now>>

\* ------------------------------------------------------------- helpers
\* d[k] = v on a dict d
Put(d, k, v) == [x \in (DOMAIN d) \cup {k} |-> IF x = k THEN v ELSE d[x]]

Has(d, k) == k \in DOMAIN d

\* time.strftime: every reading of the clock is later than the one before
ClockValues == {now + 1}

NoProc == [method |-> None, st |-> "none", clicks |-> 0]
NoCall == [method |-> None, wait |-> FALSE, ret |-> FALSE, outcome |-> "none",
           cancelled |-> "no"]

\* ------------------------------------------------------------- configuration
\* used_motors (init, lines 214-223), reduced to three roles
used_motors_list == {"phi", "phiy", "sampx"}

\* motor_hwobj_dict (init, lines 222-223): getObjectByRole gives None for a
\* role with no motor installed; the object of an installed motor is not
\* its role name
motor_hwobj_dict ==
    [r \in used_motors_list |->
        CASE r = "phi" -> "phi_hwobj"
          [] r = "sampx" -> "sampx_hwobj"
          [] OTHER -> None]

\* the motors installed
Motors == {motor_hwobj_dict[r] : r \in used_motors_list} \ {None}

\* calibration state read by convert_from_obj_to_name: the one the centring
\* engine runs with
Calibration ==
    [beam_position |-> <<100, 50>>, zoom_centre |-> [x |-> 100, y |-> 50],
     pixels_per_mm_x |-> 2, pixels_per_mm_y |-> 2]

\* the motor positions a centring procedure returns, keyed by motor object
ProcedureResult == [m \in Motors |-> 1]

\* the same positions keyed by motor name
ProcedureResultByName == [r \in used_motors_list |-> 1]

\* what get_centred_point_from_coord(..., return_by_names=True) returns
ResolverMotors == [m \in used_motors_list |-> 1]

\* motor.getPosition() of an installed motor
getPosition(motor) == 0

\* beam_x as lines 687-688 and 338-339 compute it (Python 2 division)
beam_x ==
    (calib.beam_position[1] - calib.zoom_centre.x) \div calib.pixels_per_mm_y

\* beam_y as lines 689-690 and 340-341 compute it
beam_y ==
    (calib.beam_position[2] - calib.zoom_centre.y) \div calib.pixels_per_mm_x

\* convert_from_obj_to_name that hands the positions on as the procedure
\* returned them, keyed by motor object
convert_from_obj_to_name_by_object(motor_pos) == motor_pos

\* convert_from_obj_to_name: for every role of used_motors_list the position
\* motor_pos holds for its motor object, or the motor's own position when
\* motor_pos has none (a role with no motor gets no entry); plus beam_x and
\* beam_y
convert_from_obj_to_name(motor_pos) ==
    [r \in {r \in used_motors_list :
                motor_hwobj_dict[r] \in DOMAIN motor_pos
                    \/ motor_hwobj_dict[r] # None} \cup {"beam_x", "beam_y"} |->
        IF r = "beam_x" THEN beam_x
        ELSE IF r = "beam_y" THEN beam_y
        ELSE IF motor_hwobj_dict[r] \in DOMAIN motor_pos
        THEN motor_pos[motor_hwobj_dict[r]]
        ELSE getPosition(motor_hwobj_dict[r])]

\* the loop of move_motors on the dict it was given: a key that is a name is
\* deleted and, when a motor is installed for it, its position is stored
\* under the motor object
move_motors_rewrite(motor_positions) ==
    [m \in ((DOMAIN motor_positions) \ used_motors_list) \cup
             ({motor_hwobj_dict[r] :
                  r \in (DOMAIN motor_positions) \cap used_motors_list}
                 \ {None}) |->
        IF m \in DOMAIN motor_positions
        THEN motor_positions[m]
        ELSE motor_positions[CHOOSE r \in (DOMAIN motor_positions)
                                             \cap used_motors_list :
                                 motor_hwobj_dict[r] = m]]

\* procedure.get() of session s: the dict the procedure returned, which is
\* also the dict that the move task of the session was given and rewrites
\* when it first runs
procedure_get(s) ==
    LET returned == IF motor_pos_keys = "names"
                    THEN ProcedureResultByName
                    ELSE ProcedureResult
    IN IF mv[s] \in {"none", "spawned"}
       THEN returned
       ELSE move_motors_rewrite(returned)

\* in_plate_mode answering for the other head
in_plate_mode_inverted == head_type = HEAD_TYPE_MINIKAPPA

\* in_plate_mode: the head is the plate holder
in_plate_mode == head_type = HEAD_TYPE_PLATE

is_ready == current_state = "Ready"

\* ------------------------------------------------------------- events
\* A status handed out is a dict object: its value, and whether it is the
\* very object self.centring_status refers to (shared) or an object of its own.

\* get_centring_status returning self.centring_status itself
get_centring_status_alias(status) == [value |-> status, shared |-> TRUE]

\* get_centring_status: copy.deepcopy of the status dict
get_centring_status(status) == [value |-> status, shared |-> FALSE]

\* the events and results that carry a status
SnapshotNames ==
    {"centringAccepted", "centringSuccessful", "centringFailed",
     "getCentringStatus"}

\* self.centring_status[key] = value: the dict is changed in place, which
\* shows through every reference to it
InPlace(log, status) ==
    [i \in DOMAIN log |->
        IF log[i].ev \in SnapshotNames /\ log[i].shared
        THEN [log[i] EXCEPT !.status = status]
        ELSE log[i]]

\* self.centring_status = {...}: the name is bound to a new dict, the old
\* one is no longer the status
Rebound(log) ==
    [i \in DOMAIN log |->
        IF log[i].ev \in SnapshotNames
        THEN [log[i] EXCEPT !.shared = FALSE]
        ELSE log[i]]

progressMessage(msg, by) == [ev |-> "progressMessage", msg |-> msg, by |-> by]

centringStarted(method, by) == [ev |-> "centringStarted", method |-> method, by |-> by]

\* emit_centring_moving that emits a progress message in place of
\* centringMoving
centringMoving_as_progress(by) == progressMessage("Moving...", by)

centringMoving(by) == [ev |-> "centringMoving", by |-> by]

centringAccepted(accepted, status, by) ==
    [ev |-> "centringAccepted", accepted |-> accepted,
     status |-> get_centring_status(status).value,
     shared |-> get_centring_status(status).shared, by |-> by]

centringSuccessful(method, status, by) ==
    [ev |-> "centringSuccessful", method |-> method,
     status |-> get_centring_status(status).value,
     shared |-> get_centring_status(status).shared, by |-> by]

\* the event of emit_centring_failed read late: the method slot is read after
\* it was cleared
emit_centring_failed_event_late(active_method, by) ==
    [ev |-> "centringFailed", method |-> None,
     status |-> get_centring_status([valid |-> FALSE]).value,
     shared |-> get_centring_status([valid |-> FALSE]).shared, by |-> by]

\* the event of emit_centring_failed: the method read before the slot is
\* cleared, and a copy of the status just reset
emit_centring_failed_event(active_method, by) ==
    [ev |-> "centringFailed", method |-> active_method,
     status |-> get_centring_status([valid |-> FALSE]).value,
     shared |-> get_centring_status([valid |-> FALSE]).shared, by |-> by]

\* emit_centring_failed after `log` was emitted, the method slot holding
\* active_method
emit_centring_failed(log, active_method, by) ==
    /\ centring_status' = [valid |-> FALSE]
    /\ current_centring_method' = None
    /\ current_centring_procedure' = 0
    /\ events' = Append(Rebound(log), emit_centring_failed_event(active_method, by))

\* Greenlet.kill on the procedure greenlet of session s: a running greenlet
\* ends with GreenletExit and its link (centring_done) is scheduled; a dead
\* one is left as it is
kill(s) ==
    IF proc[s].st \in {"spawned", "running"}
    THEN /\ proc' = [proc EXCEPT ![s].st = "killed"]
         /\ done' = [done EXCEPT ![s] = "pending"]
    ELSE UNCHANGED <<proc, done>>

\* Event.set: the flag is raised and every waiter is scheduled to resume
ready_event_set ==
    /\ ready_event' = TRUE
    /\ woken' = woken \cup waiters
    /\ waiters' = {}

\* the session a user call is made in: the one begun last
CurrentSession == nSessions

\* ------------------------------------------------------------- Init
\* EMBLDoorInterlock after __init__ and init().  A channel value that was
\* never received (None) is the empty sequence, a received value v is <<v>>.
door_init(use_door_interlock, can_unlock_cond, door_interlocked_cond) ==
    [use_door_interlock |-> use_door_interlock,
     can_unlock_cond |-> can_unlock_cond,
     door_interlocked_cond |-> door_interlocked_cond,
     can_unlock_cond_value |-> << >>,
     door_interlocked_cond_value |-> << >>,
     door_interlock_state |-> "unknown",
     tasks |-> << >>,
     sent |-> 0,
     nUnlocks |-> 0]

\* XfeSpectrum after init(): scanning is None (not scanning), ready_event is
\* not set, no task is spawned and doSpectrum was not asked to abort
xfe_init ==
    [scanning |-> FALSE, ready_event |-> FALSE, task |-> "none",
     aborting |-> FALSE, signals |-> << >>, nScans |-> 0]

\* the two objects beside the diffractometer, constructed and left alone
OtherObjectsInit ==
    /\ door = door_init(TRUE, 1, 1)
    /\ xfe = xfe_init

InitEngine ==
    /\ current_centring_method = None
    /\ current_centring_procedure = 0
    /\ centring_status = [valid |-> FALSE]
    /\ ready_event = FALSE
    /\ user_clicked_event = "unset"
    /\ head_type \in {HEAD_TYPE_MINIKAPPA, HEAD_TYPE_PLATE}
    /\ moving = {}
    /\ mm = [st |-> "none", keys |-> {}, issued |-> {}, n |-> 0]
    /\ current_motor_positions = [k \in {} |-> 0]
    /\ current_state = None
    /\ move_to_motors_positions_procedure = 0
    /\ proc = [s \in Sessions |-> NoProc]
    /\ done = [s \in Sessions |-> "none"]
    /\ mv = [s \in Sessions |-> "none"]
    /\ waiters = {}
    /\ woken = {}
    /\ events = << >>
    /\ call = [s \in Sessions |-> NoCall]
    /\ nSessions = 0
    /\ nStartCalls = 0
    /\ nCalls = 0
    /\ now = 0

\* the state after __init__ and init(), with the calibration the centring
\* engine runs with
Init ==
    /\ InitEngine
    /\ calib = Calibration
    /\ motor_pos_keys = "objects"
    /\ OtherObjectsInit

\* ------------------------------------------------------------- Start
\* the guard of start_centring_method with the check left out
AlreadyInCentring_unguarded == FALSE

\* the guard of start_centring_method testing the procedure slot
AlreadyInCentring_procedure_slot == current_centring_procedure # 0

\* start_centring_method, line 393: a session is active
AlreadyInCentring == current_centring_method # None

\* lines 397-407 for a method that is no key of centring_methods
StartUnknown(s, m, w, t) ==
    /\ emit_centring_failed(Append(events, centringStarted(m, s)), m, s)
    /\ call' = [call EXCEPT ![s] =
                   [method |-> m, wait |-> w, ret |-> TRUE, outcome |-> "unknown",
                    cancelled |-> "no"]]
    /\ UNCHANGED <<ready_event, proc, waiters, woken>>

\* start_manual_centring after a Start that stamps the status with the time
\* of the call before
start_manual_centring_stale_time(s, m, w, t) ==
    /\ centring_status' = [valid |-> FALSE, startTime |-> now, angleLimit |-> None]
    /\ current_centring_method' = m
    /\ events' = Rebound(events) \o
                    <<centringStarted(m, s),
                      progressMessage("Manual 3 click centring...", s)>>
    /\ proc' = [proc EXCEPT ![s] = [method |-> m, st |-> "spawned", clicks |-> 0]]
    /\ current_centring_procedure' = s
    /\ call' = [call EXCEPT ![s] =
                   [method |-> m, wait |-> w, ret |-> TRUE, outcome |-> "spawned",
                    cancelled |-> "no"]]
    /\ UNCHANGED <<ready_event, waiters, woken>>

\* start_manual_centring: wait_result is not read
start_manual_centring(s, m, w, t) ==
    /\ centring_status' = [valid |-> FALSE, startTime |-> t, angleLimit |-> None]
    /\ current_centring_method' = m
    /\ events' = Rebound(events) \o
                    <<centringStarted(m, s),
                      progressMessage("Manual 3 click centring...", s)>>
    /\ proc' = [proc EXCEPT ![s] = [method |-> m, st |-> "spawned", clicks |-> 0]]
    /\ current_centring_procedure' = s
    /\ call' = [call EXCEPT ![s] =
                   [method |-> m, wait |-> w, ret |-> TRUE, outcome |-> "spawned",
                    cancelled |-> "no"]]
    /\ UNCHANGED <<ready_event, waiters, woken>>

\* start_automatic_centring: with wait_result the caller waits for ready_event
\* and clears it
start_automatic_centring(s, m, w, t) ==
    /\ centring_status' = [valid |-> FALSE, startTime |-> t, angleLimit |-> None]
    /\ current_centring_method' = m
    /\ events' = Rebound(events) \o
                    <<centringStarted(m, s),
                      progressMessage("Automatic centring...", s)>>
    /\ proc' = [proc EXCEPT ![s] = [method |-> m, st |-> "spawned", clicks |-> 0]]
    /\ current_centring_procedure' = s
    /\ IF w /\ ~ready_event
       THEN /\ waiters' = waiters \cup {s}
            /\ call' = [call EXCEPT ![s] =
                 [method |-> m, wait |-> w, ret |-> FALSE, outcome |-> "spawned",
                    cancelled |-> "no"]]
            /\ UNCHANGED <<ready_event, woken>>
       ELSE /\ ready_event' = IF w THEN FALSE ELSE ready_event
            /\ call' = [call EXCEPT ![s] =
                 [method |-> m, wait |-> w, ret |-> TRUE, outcome |-> "spawned",
                    cancelled |-> "no"]]
            /\ UNCHANGED <<waiters, woken>>

\* start_move_to_beam without line 484: the method slot is not cleared
start_move_to_beam_keeps_method(s, m, w, t, resolved) ==
    /\ IF resolved
       THEN /\ centring_status' =
                [valid |-> TRUE, startTime |-> t, endTime |-> t,
                 motors |-> ResolverMotors, angleLimit |-> "True",
                 accepted |-> TRUE]
            /\ events' = Rebound(events) \o
                <<centringStarted(m, s),
                  progressMessage("Move to beam...", s),
                  progressMessage("", s),
                  centringAccepted(TRUE, centring_status', s)>>
            /\ current_centring_method' = m
            /\ UNCHANGED current_centring_procedure
       ELSE /\ centring_status' = [valid |-> TRUE, startTime |-> t, endTime |-> t]
            /\ events' = Rebound(events) \o
                <<centringStarted(m, s), progressMessage("Move to beam...", s)>>
            /\ current_centring_method' = m
            /\ UNCHANGED current_centring_procedure
    /\ call' = [call EXCEPT ![s] =
                   [method |-> m, wait |-> w, ret |-> TRUE,
                    outcome |-> IF resolved THEN "resolved" ELSE "resolver_failed",
                    cancelled |-> "no"]]
    /\ UNCHANGED <<ready_event, proc, waiters, woken>>

\* start_move_to_beam: the resolver get_centred_point_from_coord returns the
\* motors (resolved) or raises; the bare except only logs
start_move_to_beam(s, m, w, t, resolved) ==
    /\ IF resolved
       THEN /\ centring_status' =
                [valid |-> TRUE, startTime |-> t, endTime |-> t,
                 motors |-> ResolverMotors, angleLimit |-> "True",
                 accepted |-> TRUE]
            /\ events' = Rebound(events) \o
                <<centringStarted(m, s),
                  progressMessage("Move to beam...", s),
                  progressMessage("", s),
                  centringAccepted(TRUE, centring_status', s)>>
            /\ current_centring_method' = None
            /\ current_centring_procedure' = 0
       ELSE /\ centring_status' = [valid |-> TRUE, startTime |-> t, endTime |-> t]
            /\ events' = Rebound(events) \o
                <<centringStarted(m, s), progressMessage("Move to beam...", s)>>
            /\ current_centring_method' = m
            /\ UNCHANGED current_centring_procedure
    /\ call' = [call EXCEPT ![s] =
                   [method |-> m, wait |-> w, ret |-> TRUE,
                    outcome |-> IF resolved THEN "resolved" ELSE "resolver_failed",
                    cancelled |-> "no"]]
    /\ UNCHANGED <<ready_event, proc, waiters, woken>>

\* start_centring_method(method, sample_info, wait)
Start(m, w) ==
    /\ nCalls < MaxCalls
    /\ nCalls' = nCalls + 1
    /\ nStartCalls' = nStartCalls + 1
    /\ IF AlreadyInCentring
       THEN UNCHANGED <<current_centring_method, current_centring_procedure,
                            centring_status, ready_event, proc, waiters, woken,
                            events, call, nSessions, now>>
       ELSE /\ nSessions' = nSessions + 1
            /\ \E t \in ClockValues :
                /\ now' = t
                /\ CASE m = CENTRING_METHOD_MANUAL ->
                            start_manual_centring(nSessions + 1, m, w, t)
                     [] m = CENTRING_METHOD_AUTO ->
                            start_automatic_centring(nSessions + 1, m, w, t)
                     [] m = CENTRING_METHOD_MOVE_TO_BEAM ->
                            \E resolved \in BOOLEAN :
                                start_move_to_beam(nSessions + 1, m, w, t, resolved)
                     [] OTHER -> StartUnknown(nSessions + 1, m, w, t)
    /\ UNCHANGED <<user_clicked_event, head_type, moving, mm, calib_vars, motor_pos_keys, door, xfe, current_state,
                   move_to_motors_positions_procedure, done, mv>>

\* a Start call suspended in ready_event.wait() resumes, clears the event
\* and returns (start_automatic_centring, lines 455-456)
StartReturn(s) ==
    /\ s \in woken
    /\ woken' = woken \ {s}
    /\ ready_event' = FALSE
    /\ call' = [call EXCEPT ![s].ret = TRUE]
    /\ UNCHANGED <<current_centring_method, current_centring_procedure,
                   centring_status, user_clicked_event, head_type, moving, mm, calib_vars, motor_pos_keys, door, xfe, current_state,
                   move_to_motors_positions_procedure, proc, done, mv, waiters,
                   events, nSessions, nStartCalls, nCalls, now>>

\* ------------------------------------------------------------- user calls
\* image_clicked that also resets the status
image_clicked_resets_status ==
    /\ user_clicked_event = "unset"
    /\ user_clicked_event' = "set"
    /\ centring_status' = [valid |-> FALSE]
    /\ UNCHANGED <<current_centring_method, current_centring_procedure,
                   ready_event, head_type, moving, mm, calib_vars, motor_pos_keys, door, xfe, current_state,
                   move_to_motors_positions_procedure, proc, done, mv, waiters,
                   woken, events, call, nSessions, nStartCalls, nCalls, now>>

\* image_clicked: the AsyncResult is set, whoever waits or not
image_clicked ==
    /\ user_clicked_event = "unset"
    /\ user_clicked_event' = "set"
    /\ UNCHANGED <<current_centring_method, current_centring_procedure,
                   centring_status, ready_event, head_type, moving, mm, calib_vars, motor_pos_keys, door, xfe, current_state,
                   move_to_motors_positions_procedure, proc, done, mv, waiters,
                   woken, events, call, nSessions, nStartCalls, nCalls, now>>

\* get_centring_status called by a user of the object, who keeps the result
GetCentringStatus ==
    /\ nCalls < MaxCalls
    /\ nCalls' = nCalls + 1
    /\ events' = Append(events,
           [ev |-> "getCentringStatus",
            status |-> get_centring_status(centring_status).value,
            shared |-> get_centring_status(centring_status).shared,
            by |-> CurrentSession])
    /\ UNCHANGED <<current_centring_method, current_centring_procedure,
                   centring_status, ready_event, user_clicked_event, head_type, moving, mm, calib_vars, motor_pos_keys, door, xfe,
                   current_state, move_to_motors_positions_procedure, proc,
                   done, mv, waiters, woken, call, nSessions, nStartCalls, now>>

\* accept_centring that also ends the session, as start_move_to_beam does
\* after it
accept_centring_ends_session ==
    /\ nCalls < MaxCalls
    /\ nCalls' = nCalls + 1
    /\ centring_status' =
           Put(Put(centring_status, "valid", TRUE), "accepted", TRUE)
    /\ events' = Append(InPlace(events, centring_status'),
                        centringAccepted(TRUE, centring_status', CurrentSession))
    /\ current_centring_method' = None
    /\ current_centring_procedure' = 0
    /\ UNCHANGED <<ready_event, user_clicked_event, head_type, moving, mm, calib_vars, motor_pos_keys, door, xfe, current_state,
                   move_to_motors_positions_procedure, proc, done, mv, waiters,
                   woken, call, nSessions, nStartCalls, now>>

\* accept_centring
accept_centring ==
    /\ nCalls < MaxCalls
    /\ nCalls' = nCalls + 1
    /\ centring_status' =
           Put(Put(centring_status, "valid", TRUE), "accepted", TRUE)
    /\ events' = Append(InPlace(events, centring_status'),
                        centringAccepted(TRUE, centring_status', CurrentSession))
    /\ UNCHANGED <<current_centring_method, current_centring_procedure,
                   ready_event, user_clicked_event, head_type, moving, mm, calib_vars, motor_pos_keys, door, xfe, current_state,
                   move_to_motors_positions_procedure, proc, done, mv, waiters,
                   woken, call, nSessions, nStartCalls, now>>

\* reject_centring without line 598: the status is not reset
reject_centring_body_keeps_status(log, p) ==
    /\ IF p # 0 THEN kill(p) ELSE UNCHANGED <<proc, done>>
    /\ UNCHANGED centring_status
    /\ events' = log \o
         <<progressMessage("", CurrentSession),
           centringAccepted(FALSE, centring_status, CurrentSession)>>

\* reject_centring after `log` was emitted, the procedure slot holding p
reject_centring_body(log, p) ==
    /\ IF p # 0 THEN kill(p) ELSE UNCHANGED <<proc, done>>
    /\ centring_status' = [valid |-> FALSE]
    /\ events' = Rebound(log) \o
         <<progressMessage("", CurrentSession),
           centringAccepted(FALSE, [valid |-> FALSE], CurrentSession)>>

\* reject_centring
reject_centring ==
    /\ nCalls < MaxCalls
    /\ nCalls' = nCalls + 1
    /\ reject_centring_body(events, current_centring_procedure)
    /\ UNCHANGED <<current_centring_method, current_centring_procedure,
                   ready_event, user_clicked_event, head_type, moving, mm, calib_vars, motor_pos_keys, door, xfe, current_state,
                   move_to_motors_positions_procedure, mv, waiters,
                   woken, call, nSessions, nStartCalls, now>>

\* cancel_centring_method(reject).  self.cancel_centring_methods is assigned
\* nowhere (__init__ sets only centring_methods), so with a procedure in the
\* slot line 426 raises AttributeError, which `except KeyError` does not
\* catch: the call ends there, after the kill.
cancel_centring_method(reject) ==
    /\ nCalls < MaxCalls
    /\ nCalls' = nCalls + 1
    /\ IF current_centring_procedure # 0
       THEN /\ kill(current_centring_procedure)
            /\ call' = IF proc[current_centring_procedure].st \in {"spawned", "running"}
                       THEN [call EXCEPT ![current_centring_procedure].cancelled =
                                IF reject THEN "reject" ELSE "cancel"]
                       ELSE call
            /\ UNCHANGED <<current_centring_method, current_centring_procedure,
                           centring_status, events>>
       ELSE /\ current_centring_method' = None
            /\ current_centring_procedure' = 0
            /\ UNCHANGED call
            /\ IF reject
               THEN reject_centring_body(
                        events \o
                          <<emit_centring_failed_event(current_centring_method,
                                                       CurrentSession),
                            progressMessage("", CurrentSession)>>, 0)
               ELSE /\ centring_status' = [valid |-> FALSE]
                    /\ events' = Rebound(events) \o
                          <<emit_centring_failed_event(current_centring_method,
                                                       CurrentSession),
                            progressMessage("", CurrentSession)>>
                    /\ UNCHANGED <<proc, done>>
    /\ UNCHANGED <<ready_event, user_clicked_event, head_type, moving, mm, calib_vars, motor_pos_keys, door, xfe, current_state,
                   move_to_motors_positions_procedure, mv, waiters,
                   woken, nSessions, nStartCalls, now>>

\* ------------------------------------------------------------- procedures
\* The procedure greenlets manual_centring and automatic_centring are supplied
\* by the diffractometer model; here they are the tasks section 4.1 of the
\* specification describes.

\* a spawned greenlet runs for the first time; the manual procedure arms the
\* click signal and waits for it
procedure_run(s) ==
    /\ proc[s].st = "spawned"
    /\ proc' = [proc EXCEPT ![s].st = "running"]
    /\ user_clicked_event' =
         IF proc[s].method = CENTRING_METHOD_MANUAL THEN "unset"
         ELSE user_clicked_event
    /\ UNCHANGED <<current_centring_method, current_centring_procedure,
                   centring_status, ready_event, head_type, moving, mm, calib_vars, motor_pos_keys, door, xfe, current_state,
                   move_to_motors_positions_procedure, done, mv, waiters, woken,
                   events, call, nSessions, nStartCalls, nCalls, now>>

\* the manual procedure resumes with a click; with the last point it resolves
\* the target (resolved) or the resolver raises
manual_centring(s, resolved) ==
    /\ proc[s].st = "running"
    /\ proc[s].method = CENTRING_METHOD_MANUAL
    /\ user_clicked_event = "set"
    /\ user_clicked_event' = "unset"
    /\ IF proc[s].clicks + 1 < NUM_CLICKS
       THEN /\ proc' = [proc EXCEPT ![s].clicks = @ + 1]
            /\ UNCHANGED done
       ELSE /\ proc' = [proc EXCEPT ![s].clicks = @ + 1,
                                    ![s].st = IF resolved THEN "ok" ELSE "exc"]
            /\ done' = [done EXCEPT ![s] = "pending"]
    /\ UNCHANGED <<current_centring_method, current_centring_procedure,
                   centring_status, ready_event, head_type, moving, mm, calib_vars, motor_pos_keys, door, xfe, current_state,
                   move_to_motors_positions_procedure, mv, waiters, woken,
                   events, call, nSessions, nStartCalls, nCalls, now>>

\* the automatic procedure ends: with a result (resolved) or by an exception
automatic_centring(s, resolved) ==
    /\ proc[s].st = "running"
    /\ proc[s].method = CENTRING_METHOD_AUTO
    /\ proc' = [proc EXCEPT ![s].st = IF resolved THEN "ok" ELSE "exc"]
    /\ done' = [done EXCEPT ![s] = "pending"]
    /\ UNCHANGED <<current_centring_method, current_centring_procedure,
                   centring_status, ready_event, user_clicked_event, head_type, moving, mm, calib_vars, motor_pos_keys, door, xfe,
                   current_state, move_to_motors_positions_procedure, mv,
                   waiters, woken, events, call, nSessions, nStartCalls, nCalls, now>>

\* ------------------------------------------------------------- centring_done
\* lines 513-516: emit_centring_successful, the empty progress message and
\* ready_event.set(), after `log` was emitted
centring_done_tail(s, log, t) ==
    /\ IF current_centring_procedure # 0
       THEN /\ centring_status' =
                 Put(Put(Put(Put(centring_status, "endTime", t),
                     "motors", convert_from_obj_to_name(procedure_get(s))),
                     "method", current_centring_method),
                     "valid", TRUE)
            /\ events' = InPlace(log, centring_status') \o
                 <<centringSuccessful(current_centring_method,
                                      centring_status', s),
                   progressMessage("", s)>>
            /\ current_centring_method' = None
            /\ current_centring_procedure' = 0
       ELSE /\ events' = Append(log, progressMessage("", s))
            /\ UNCHANGED <<centring_status, current_centring_method,
                           current_centring_procedure>>
    /\ now' = t
    /\ ready_event_set
    /\ done' = [done EXCEPT ![s] = "returned"]

\* centring_done of session s starts: the procedure greenlet has ended
centring_done(s) ==
    /\ done[s] = "pending"
    /\ IF proc[s].st # "ok"
       THEN \* lines 497-499: the procedure raised or was killed
            /\ emit_centring_failed(events, current_centring_method, s)
            /\ done' = [done EXCEPT ![s] = "returned"]
            /\ UNCHANGED <<ready_event, waiters, woken, mv, now,
                           move_to_motors_positions_procedure>>
       ELSE \* lines 501-504: the move task is spawned, not awaited
            /\ mv' = [mv EXCEPT ![s] = "spawned"]
            /\ move_to_motors_positions_procedure' = s
            /\ IF in_plate_mode
               THEN \E t \in ClockValues :
                      centring_done_tail(s,
                        events \o
                          <<progressMessage("Moving sample to centred position...", s),
                            centringMoving(s),
                            progressMessage("Moving to motors positions...", s)>>, t)
               ELSE \* line 511: suspended in phi.syncMoveRelative(-180)
                    /\ events' = events \o
                          <<progressMessage("Moving sample to centred position...", s),
                            centringMoving(s),
                            progressMessage("Moving to motors positions...", s)>>
                    /\ done' = [done EXCEPT ![s] = "phi"]
                    /\ UNCHANGED <<centring_status, current_centring_method,
                                   current_centring_procedure, ready_event,
                                   waiters, woken, now>>
    /\ UNCHANGED <<user_clicked_event, head_type, moving, mm, calib_vars, motor_pos_keys, door, xfe, current_state, proc, call,
                   nSessions, nStartCalls, nCalls>>

\* phi.syncMoveRelative(-180) returns (moved) or raises; the call is outside
\* every try block, so an exception ends centring_done there
centring_done_phi(s, moved) ==
    /\ done[s] = "phi"
    /\ IF moved
       THEN \E t \in ClockValues : centring_done_tail(s, events, t)
       ELSE /\ done' = [done EXCEPT ![s] = "raised"]
            /\ UNCHANGED <<centring_status, current_centring_method,
                           current_centring_procedure, ready_event, waiters,
                           woken, events, now>>
    /\ UNCHANGED <<user_clicked_event, head_type, moving, mm, calib_vars, motor_pos_keys, door, xfe, current_state,
                   move_to_motors_positions_procedure, proc, mv, call,
                   nSessions, nStartCalls, nCalls>>

\* ------------------------------------------------------------- move task
\* the device reports its state (the diffractometer model sets
\* current_state); Ready is reported only when no motor is moving, and a
\* report stands until the next one
device_state_changed(st) ==
    /\ current_state # st
    /\ st = "Ready" => moving = {}
    /\ current_state' = st
    /\ UNCHANGED <<engine_vars, calib_vars, motor_pos_keys, door, xfe, moving, mm>>

\* wait_device_ready polling with no gevent.Timeout around the loop
wait_device_ready_unbounded(timed_out) ==
    IF is_ready THEN "ready" ELSE "sleep"

\* wait_device_ready, one poll: the loop ends when is_ready() holds, the
\* gevent.Timeout raises once the time is up, otherwise the greenlet sleeps
\* and polls again
wait_device_ready(timed_out) ==
    IF is_ready THEN "ready"
    ELSE IF timed_out THEN "timeout"
    ELSE "sleep"

\* move_motors as the task centring_done spawned: the moves are issued, then
\* wait_device_ready(15) polls.  Here the device reports stand for the
\* motors; the motors themselves are followed in MoveSpec below.
move_motors(s, timed_out) ==
    /\ mv[s] \in {"spawned", "waiting"}
    /\ LET polled == wait_device_ready(timed_out /\ mv[s] = "waiting") IN
         /\ polled = "sleep" => mv[s] = "spawned"
         /\ mv' = [mv EXCEPT ![s] =
                      CASE polled = "ready" -> "ok"
                        [] polled = "timeout" -> "timeout"
                        [] OTHER -> "waiting"]
    /\ UNCHANGED <<current_centring_method, current_centring_procedure,
                   centring_status, ready_event, user_clicked_event, head_type,
                   moving, mm, calib_vars, motor_pos_keys, door, xfe, current_state,
                   move_to_motors_positions_procedure, proc,
                   done, waiters, woken, events, call, nSessions, nStartCalls,
                   nCalls, now>>

\* move_motors_done that leaves the reference to the move task in place
move_motors_done_keeps_reference(s) ==
    /\ mv[s] \in {"ok", "timeout"}
    /\ mv' = [mv EXCEPT ![s] = "finished"]
    /\ events' = Append(events, progressMessage("", s))
    /\ UNCHANGED <<current_centring_method, current_centring_procedure,
                   centring_status, ready_event, user_clicked_event, head_type,
                   moving, mm, calib_vars, motor_pos_keys, door, xfe, current_state,
                   move_to_motors_positions_procedure, proc, done, waiters,
                   woken, call, nSessions, nStartCalls, nCalls, now>>

\* move_motors_done, the link of the move task
move_motors_done(s) ==
    /\ mv[s] \in {"ok", "timeout"}
    /\ mv' = [mv EXCEPT ![s] = "finished"]
    /\ move_to_motors_positions_procedure' = 0
    /\ events' = Append(events, progressMessage("", s))
    /\ UNCHANGED <<current_centring_method, current_centring_procedure,
                   centring_status, ready_event, user_clicked_event, head_type, moving, mm, calib_vars, motor_pos_keys, door, xfe,
                   current_state, proc, done, waiters, woken, call, nSessions,
                   nStartCalls, nCalls, now>>

\* ------------------------------------------------------------- Next
Next ==
    \/ \E m \in Methods, w \in BOOLEAN : Start(m, w)
    \/ \E s \in Sessions : StartReturn(s)
    \/ image_clicked
    \/ GetCentringStatus
    \/ accept_centring
    \/ reject_centring
    \/ \E reject \in BOOLEAN : cancel_centring_method(reject)
    \/ \E s \in Sessions : procedure_run(s)
    \/ \E s \in Sessions, resolved \in BOOLEAN : manual_centring(s, resolved)
    \/ \E s \in Sessions, resolved \in BOOLEAN : automatic_centring(s, resolved)
    \/ \E s \in Sessions : centring_done(s)
    \/ \E s \in Sessions, moved \in BOOLEAN : centring_done_phi(s, moved)
    \/ \E st \in {"Ready", "Moving"} : device_state_changed(st)
    \/ \E s \in Sessions, timed_out \in BOOLEAN : move_motors(s, timed_out)
    \/ \E s \in Sessions : move_motors_done(s)

Spec == Init /\ [][Next]_vars

\* ------------------------------------------------------------- move_motors
\* move_motors called with a position map, followed motor by motor.

\* a motor name that is no key of motor_hwobj_dict
UNKNOWN_MOTOR == "kappa"

\* the position maps given to move_motors: positions by role name
PositionMaps ==
    {[r \in roles |-> 1] :
        roles \in SUBSET (used_motors_list \cup {UNKNOWN_MOTOR})}

\* the orders motor_positions.keys() can list the keys in
KeyOrders(keys) ==
    {order \in [1..Cardinality(keys) -> keys] :
        {order[i] : i \in DOMAIN order} = keys}

\* the loop of move_motors over the keys in the given order: the name is
\* looked up in motor_hwobj_dict (a name that is no key raises KeyError and
\* ends the loop), a role with no motor installed is skipped, and
\* motor.move(position) is issued to every other one (it does not block)
move_motors_loop(order) ==
    LET unknown == {i \in DOMAIN order : order[i] \notin DOMAIN motor_hwobj_dict}
        stop == IF unknown = {} THEN Len(order) + 1
                ELSE CHOOSE i \in unknown : \A j \in unknown : i <= j
    IN [issued |-> {motor_hwobj_dict[order[i]] : i \in 1..(stop - 1)} \ {None},
        raised |-> unknown # {}]

\* a motor that was told to move reaches its position
motor_move_done(motor) ==
    /\ motor \in moving
    /\ moving' = moving \ {motor}
    /\ UNCHANGED <<engine_vars, calib_vars, motor_pos_keys, door, xfe, current_state, mm>>

\* move_motors(motor_positions): the loop over the keys, in the order the
\* dict lists them; if the loop ended, wait_device_ready(15) makes its first
\* test of is_ready()
move_motors_call(motor_positions) ==
    /\ mm.st # "waiting"
    /\ mm.n < MaxMoves
    /\ \E order \in KeyOrders(DOMAIN motor_positions) :
         LET loop == move_motors_loop(order)
             polled == wait_device_ready(FALSE)
         IN /\ moving' = moving \cup loop.issued
            /\ mm' = [st |-> IF loop.raised THEN "raised"
                             ELSE IF polled = "ready" THEN "ok" ELSE "waiting",
                      keys |-> DOMAIN motor_positions,
                      issued |-> loop.issued, n |-> mm.n + 1]
    /\ UNCHANGED <<engine_vars, calib_vars, motor_pos_keys, door, xfe, current_state>>

\* wait_device_ready(15) in move_motors polls again after a sleep
move_motors_poll(timed_out) ==
    /\ mm.st = "waiting"
    /\ wait_device_ready(timed_out) # "sleep"
    /\ mm' = [mm EXCEPT !.st = IF wait_device_ready(timed_out) = "ready"
                                THEN "ok" ELSE "timeout"]
    /\ UNCHANGED <<engine_vars, calib_vars, motor_pos_keys, door, xfe, current_state, moving>>

MoveNext ==
    \/ \E motor_positions \in PositionMaps : move_motors_call(motor_positions)
    \/ \E timed_out \in BOOLEAN : move_motors_poll(timed_out)
    \/ \E motor \in Motors : motor_move_done(motor)
    \/ \E st \in {"Ready", "Moving"} : device_state_changed(st)

MoveSpec == Init /\ [][MoveNext]_vars

\* the greenlet that called move_motors is scheduled again after every
\* sleep, and the timer of gevent.Timeout runs out
FairMoveSpec ==
    MoveSpec /\ WF_vars(\E timed_out \in BOOLEAN : move_motors_poll(timed_out))

\* ------------------------------------------------------------- vocabulary
\* the engine is Idle: no active method and no procedure task
Idle == current_centring_method = None /\ current_centring_procedure = 0

\* the procedure greenlet of session s has not ended
ProcedureRunning(s) == proc[s].st \in {"spawned", "running"}

\* session s is the active one: it was begun last and the engine is not Idle
\* (Start is accepted only with the method slot empty, so every earlier
\* session has left it empty at least once)
SessionActive(s) == s = nSessions /\ ~Idle

\* nothing of session s is left to run: its Start call has returned, its
\* procedure greenlet has ended and centring_done has returned or raised
SessionSettled(s) ==
    /\ s <= nSessions
    /\ call[s].ret
    /\ ~ProcedureRunning(s)
    /\ done[s] \notin {"pending", "phi"}

TerminalEventNames == {"centringSuccessful", "centringFailed", "centringAccepted"}

\* the positions in the log of the events of kind `name` emitted for session s
EventsOf(s, name) ==
    {i \in 1..Len(events) : events[i].by = s /\ events[i].ev = name}

TerminalEvents(s) ==
    {i \in 1..Len(events) : events[i].by = s /\ events[i].ev \in TerminalEventNames}

\* this step is a call of Start
StartCalled == nStartCalls' = nStartCalls + 1

\* this step is centring_done of s handling a procedure that raised or was killed
CentringDoneOfFailure(s) ==
    /\ done[s] = "pending"
    /\ done'[s] # "pending"
    /\ proc[s].st \in {"exc", "killed"}

\* ------------------------------------------------------------- claims

\* C1: in every reachable state at most one centring procedure task is
\* running; Start never dispatches a second procedure while a session is
\* active.
C1_AtMostOneProcedureRunning ==
    Cardinality({s \in Sessions : ProcedureRunning(s)}) <= 1

\* a procedure is running and a Start call made meanwhile was turned down
C1_Witness ==
    /\ nStartCalls > nSessions
    /\ \E s \in Sessions : ProcedureRunning(s) /\ SessionActive(s)

\* C2: a Start call made while a session is active changes nothing: the
\* active method, the procedure slot, the procedure tasks and their
\* completion handlers, the status with its start time and the events emitted
\* are the same after the call as before it.
C2_StartWhileActiveChangesNothing ==
    [][(StartCalled /\ current_centring_method # None) =>
          UNCHANGED <<current_centring_method, current_centring_procedure,
                      centring_status, proc, done, events, nSessions, call,
                      ready_event, waiters, woken>>]_vars

\* a Manual session with its start time recorded is active, its procedure is
\* running, and a Start call was turned down
C2_Witness ==
    /\ nStartCalls = 2
    /\ nSessions = 1
    /\ current_centring_method = CENTRING_METHOD_MANUAL
    /\ ProcedureRunning(1)
    /\ Has(centring_status, "startTime")

\* C3: every Start that begins a session is followed by exactly one terminal
\* event of that session: once nothing of the session is left to run,
\* exactly one of centringSuccessful, centringFailed and centringAccepted has
\* been emitted for it.
C3_ExactlyOneTerminalEvent ==
    \A s \in Sessions :
        SessionSettled(s) => Cardinality(TerminalEvents(s)) = 1

\* C4: after every centring attempt, however its procedure ended, the engine
\* is Idle again once the completion handler has ended.
C4_IdleAfterEveryAttempt ==
    \A s \in Sessions :
        (done[s] \in {"returned", "raised"} /\ s = nSessions) => Idle

\* C5: when Start(method, wait=true) has returned, the session it started
\* has reached Idle.
C5_WaitingStartReturnsIdle ==
    \A s \in Sessions :
        (call[s].wait /\ call[s].ret) => ~SessionActive(s)

\* C6: when the completion handler of a procedure that failed has ended, it
\* has released the readiness signal: the Start call of that session is no
\* longer suspended in the wait.
C6_FailureReleasesWaiters ==
    \A s \in Sessions :
        (done[s] \in {"returned", "raised"} /\ proc[s].st \in {"exc", "killed"})
            => s \notin waiters

\* C7: when a procedure task ended by exception or by cancellation, its
\* completion handler emits centringFailed carrying the method the session
\* was started with and a status with valid = FALSE, and clears the session.
C7_FailedProcedureEmitsFailed ==
    [][\A s \in Sessions :
          CentringDoneOfFailure(s) =>
              /\ Len(events') = Len(events) + 1
              /\ events'[Len(events')].ev = "centringFailed"
              /\ events'[Len(events')].method = call[s].method
              /\ events'[Len(events')].status.valid = FALSE
              /\ centring_status'.valid = FALSE
              /\ current_centring_method' = None
              /\ current_centring_procedure' = 0]_vars

\* the resolver failed after the clicks of a Manual session and the
\* completion handler has emitted centringFailed for it
C7_Witness ==
    \E s \in Sessions :
        /\ call[s].method = CENTRING_METHOD_MANUAL
        /\ proc[s].st = "exc"
        /\ proc[s].clicks = NUM_CLICKS
        /\ done[s] = "returned"
        /\ EventsOf(s, "centringFailed") # {}
        /\ Idle

\* C8: if the relative move of phi raised during the finalization of a
\* successful procedure, centringFailed has been emitted for the session.
C8_PhiFailureEmitsFailed ==
    \A s \in Sessions :
        done[s] = "raised" => EventsOf(s, "centringFailed") # {}

\* C9: a Start(MoveToBeam) whose resolver fails emits centringFailed, leaves
\* the status invalid and leaves the engine Idle.
C9_ResolverFailureIsCentringFailure ==
    [][\A s \in Sessions :
          (call[s].outcome = "none" /\ call'[s].outcome = "resolver_failed") =>
              /\ events'[Len(events')].ev = "centringFailed"
              /\ centring_status'.valid = FALSE
              /\ current_centring_method' = None
              /\ current_centring_procedure' = 0]_vars

\* C10: a Start with a method that is not registered emits centringFailed,
\* emits no centringStarted, dispatches no procedure and leaves the engine
\* Idle.
C10_UnknownMethodStartsNothing ==
    [][\A s \in Sessions :
          (call[s].outcome = "none" /\ call'[s].outcome = "unknown") =>
              /\ \E i \in Len(events) + 1 .. Len(events') :
                     events'[i].ev = "centringFailed"
              /\ \A i \in Len(events) + 1 .. Len(events') :
                     events'[i].ev # "centringStarted"
              /\ proc' = proc
              /\ current_centring_method' = None
              /\ current_centring_procedure' = 0]_vars

\* C11: Cancel(reject = TRUE) called while the procedure of a Manual session
\* is running tears the task down, has centringFailed emitted and afterwards
\* emits centringAccepted(FALSE) with a status of valid = FALSE, in that
\* order: once the completion handler of the session has ended, the log holds
\* a centringFailed of the session followed by such a rejection event.
C11_CancelRejectFailsThenRejects ==
    \A s \in Sessions :
        (/\ call[s].method = CENTRING_METHOD_MANUAL
         /\ call[s].cancelled = "reject"
         /\ done[s] \in {"returned", "raised"})
        => /\ proc[s].st = "killed"
           /\ \E i \in EventsOf(s, "centringFailed") :
                \E j \in EventsOf(s, "centringAccepted") :
                    /\ i < j
                    /\ events[j].accepted = FALSE
                    /\ events[j].status.valid = FALSE

\* the manual procedure of session s is suspended waiting for a click
AwaitingClick(s) ==
    proc[s].st = "running" /\ proc[s].method = CENTRING_METHOD_MANUAL

C13_SnapshotsAreDeepCopies ==
    [][/\ \A i \in 1..Len(events') :
            events'[i].ev \in SnapshotNames => ~events'[i].shared
       /\ \A i \in 1..Len(events) :
            events[i].ev \in SnapshotNames =>
                events'[i].status = events[i].status]_vars

\* a status was handed to a caller and the engine then changed its status
\* in place (accept_centring): the two snapshots differ
C13_Witness ==
    \E i \in 1..Len(events) :
        /\ i < Len(events)
        /\ events[i].ev = "getCentringStatus"
        /\ events[i + 1].ev = "centringAccepted"
        /\ events[i + 1].accepted
        /\ events[i].status.valid = FALSE
        /\ events[i + 1].status.valid = TRUE

\* this step is a Start("Move to beam") of session s whose resolver succeeded
MoveToBeamResolved(s) ==
    call[s].outcome = "none" /\ call'[s].outcome = "resolved"

\* C14 as stated: a Start("Move to beam") whose resolver succeeds completes
\* without suspension, and when it returns centringSuccessful has been
\* emitted for the session and the engine is Idle.
C14_MoveToBeamEmitsSuccessful ==
    [][\A s \in Sessions :
          MoveToBeamResolved(s) =>
              /\ call'[s].ret
              /\ \E i \in Len(events) + 1 .. Len(events') :
                    events'[i].ev = "centringSuccessful" /\ events'[i].by = s
              /\ current_centring_method' = None
              /\ current_centring_procedure' = 0]_vars

\* C14, amended: a Start("Move to beam") whose resolver succeeds completes
\* without suspension; when it returns, the session has been accepted
\* (centringAccepted(TRUE) with a status of valid = TRUE and accepted = TRUE
\* is the last event emitted), no centringSuccessful has been emitted for it,
\* no task was spawned and the engine is Idle.
C14_MoveToBeamEmitsAccepted ==
    [][\A s \in Sessions :
          MoveToBeamResolved(s) =>
              /\ call'[s].ret
              /\ events'[Len(events')].ev = "centringAccepted"
              /\ events'[Len(events')].by = s
              /\ events'[Len(events')].accepted = TRUE
              /\ events'[Len(events')].status.valid = TRUE
              /\ events'[Len(events')].status.motors = ResolverMotors
              /\ \A i \in Len(events) + 1 .. Len(events') :
                    events'[i].ev # "centringSuccessful"
              /\ centring_status'.valid = TRUE
              /\ centring_status'.accepted = TRUE
              /\ proc' = proc /\ mv' = mv
              /\ current_centring_method' = None
              /\ current_centring_procedure' = 0]_vars

\* a Start("Move to beam") has returned with the target resolved
C14_Witness ==
    \E s \in Sessions :
        /\ call[s].method = CENTRING_METHOD_MOVE_TO_BEAM
        /\ call[s].outcome = "resolved"
        /\ call[s].ret
        /\ EventsOf(s, "centringAccepted") # {}
        /\ Idle

\* this step issues phi.syncMoveRelative(-180) in centring_done of session s
PhiRelativeMoveIssued(s) == done[s] # "phi" /\ done'[s] = "phi"

\* this step emits centringSuccessful for session s
CentringSuccessfulEmitted(s) ==
    \E i \in Len(events) + 1 .. Len(events') :
        events'[i].ev = "centringSuccessful" /\ events'[i].by = s

\* the move task spawned by centring_done of session s has not ended
MoveOutstanding(s) == mv[s] \in {"spawned", "waiting"}

\* C15: while a successful Manual or Automatic session is finalized, the
\* relative move of phi by -180 is issued only after the main move to the
\* resolved target has completed: when phi receives the command, the main
\* move task of the session has run and ended.
C15_PhiMoveAfterMainMove ==
    [][\A s \in Sessions :
          PhiRelativeMoveIssued(s) => mv'[s] \in {"ok", "finished"}]_vars

\* C16: the relative move of phi by -180 is issued only while a Manual or
\* Automatic session whose procedure succeeded is finalized and the head is
\* not the plate holder; never in plate mode and never for "Move to beam".
C16_PhiMoveOnlyOffPlate ==
    \A s \in Sessions :
        done[s] \in {"phi", "raised"} =>
            /\ head_type # HEAD_TYPE_PLATE
            /\ call[s].method \in {CENTRING_METHOD_MANUAL, CENTRING_METHOD_AUTO}
            /\ proc[s].st = "ok"

\* centring_done of a successful Manual session, on a MiniKappa head, is
\* suspended in the relative move of phi
C16_Witness ==
    \E s \in Sessions :
        /\ done[s] = "phi"
        /\ head_type = HEAD_TYPE_MINIKAPPA
        /\ call[s].method = CENTRING_METHOD_MANUAL
        /\ proc[s].clicks = NUM_CLICKS

\* C17: centringSuccessful is emitted for a Manual or Automatic session only
\* after the move to the resolved target was executed and awaited: at the
\* moment of the event no move task of the session is outstanding.
C17_SuccessfulAfterMove ==
    [][\A s \in Sessions :
          CentringSuccessfulEmitted(s) =>
              /\ mv'[s] # "none"
              /\ ~MoveOutstanding(s)']_vars

\* C18: in every reachable state is_ready() is true exactly when no motor
\* move task is outstanding and no centring procedure is running (checked
\* in the states where the device has reported a state at all).
C18_ReadyIffNothingRunning ==
    current_state # None =>
        (is_ready <=>
            /\ \A s \in Sessions : ~MoveOutstanding(s)
            /\ \A s \in Sessions : ~ProcedureRunning(s))

\* this step is a direct call of move_motors returning normally
MoveMotorsReturned == mm.st # "ok" /\ mm'.st = "ok"

\* C19: a move_motors call that issued moves to several motors returns
\* normally only after all of those motors have reached their positions, in
\* whatever order they do.
C19_MoveMotorsReturnsAfterAllMotors ==
    [][(MoveMotorsReturned /\ Cardinality(mm'.issued) >= 2)
           => mm'.issued \cap moving' = {}]_vars

\* C20: wait_device_ready always terminates, and so does the move_motors
\* that calls it: it returns normally only in a state where the device is
\* ready, and a wait that does not see the device ready ends with the
\* timeout error instead of lasting forever.
C20_WaitDeviceReadyTerminates ==
    /\ [][/\ MoveMotorsReturned => is_ready'
          /\ (mm.st = "waiting" /\ mm'.st = "timeout") => ~is_ready]_vars
    /\ (mm.st = "waiting") ~> (mm.st \in {"ok", "timeout"})

\* a move_motors call waited for a device that did not become ready, with a
\* motor still moving, and ended with the timeout error
C20_Witness ==
    /\ mm.st = "timeout"
    /\ ~is_ready
    /\ mm.issued \cap moving # {}

\* this step is a call of move_motors
MoveMotorsCalled == mm'.n = mm.n + 1

\* the installed motors among a set of names
InstalledMotors(keys) ==
    {motor_hwobj_dict[r] : r \in keys \cap DOMAIN motor_hwobj_dict} \ {None}

\* the names of a set that resolve to no installed motor
UnresolvedNames(keys) ==
    {r \in keys : r \notin DOMAIN motor_hwobj_dict \/ motor_hwobj_dict[r] = None}

\* C21: move_motors given a position map in which one name resolves to no
\* installed motor, among several valid ones, raises no error for that name
\* and issues the move to every valid motor of the map, whatever the order
\* the keys are listed in.
C21_UnknownMotorNameIsSkipped ==
    [][(/\ MoveMotorsCalled
        /\ Cardinality(UnresolvedNames(mm'.keys)) = 1
        /\ Cardinality(InstalledMotors(mm'.keys)) >= 2)
       => /\ mm'.st # "raised"
          /\ mm'.issued = InstalledMotors(mm'.keys)]_vars

\* C22: move_motors given an empty position map issues no move command and
\* completes at once, as ready.
C22_EmptyMapCompletesAtOnce ==
    [][(MoveMotorsCalled /\ mm'.keys = {})
       => /\ mm'.issued = {}
          /\ moving' = moving
          /\ mm'.st = "ok"]_vars

\* this step is a call of accept_centring: one event is emitted, and it is
\* centringAccepted(TRUE, ...)
AcceptCentringCalled ==
    /\ Len(events') = Len(events) + 1
    /\ events'[Len(events')].ev = "centringAccepted"
    /\ events'[Len(events')].accepted

\* C23: accept_centring marks the status accepted = TRUE and emits
\* centringAccepted(TRUE, snapshot) with the snapshot equal to the status as
\* it is when the event is emitted; the active method and the procedure task
\* are left as they are.
C23_AcceptMarksAndEmits ==
    [][AcceptCentringCalled =>
          /\ centring_status'.accepted = TRUE
          /\ \A k \in DOMAIN centring_status \ {"valid", "accepted"} :
                Has(centring_status', k) /\ centring_status'[k] = centring_status[k]
          /\ events'[Len(events')].status = centring_status'
          /\ UNCHANGED <<current_centring_method, current_centring_procedure,
                         proc, done>>]_vars

\* the centring of a session whose procedure is still running was accepted
C23_Witness ==
    /\ Len(events) > 0
    /\ events[Len(events)].ev = "centringAccepted"
    /\ events[Len(events)].accepted
    /\ current_centring_method = CENTRING_METHOD_MANUAL
    /\ \E s \in Sessions : ProcedureRunning(s) /\ current_centring_procedure = s
    /\ centring_status.accepted

\* this step emits centringAccepted(FALSE, ...) last: reject_centring ran
RejectCentringCalled ==
    /\ Len(events') > Len(events)
    /\ events'[Len(events')].ev = "centringAccepted"
    /\ ~events'[Len(events')].accepted

\* C24: reject_centring ends the running procedure task if there is one,
\* resets the status to invalid, whatever result it held, and emits
\* centringAccepted(FALSE, snapshot) with a snapshot of valid = FALSE.
C24_RejectKillsResetsAndEmits ==
    [][RejectCentringCalled =>
          /\ \A s \in Sessions :
                (current_centring_procedure = s /\ ProcedureRunning(s))
                    => proc'[s].st = "killed" /\ done'[s] = "pending"
          /\ centring_status' = [valid |-> FALSE]
          /\ events'[Len(events')].status.valid = FALSE
          /\ ~Has(events'[Len(events')].status, "accepted")]_vars

\* the running procedure of a Manual session was ended by reject_centring
C24_Witness ==
    /\ Len(events) > 2
    /\ events[Len(events)].ev = "centringAccepted"
    /\ ~events[Len(events)].accepted
    /\ \E s \in Sessions : proc[s].st = "killed" /\ call[s].cancelled = "no"
    /\ centring_status = [valid |-> FALSE]

\* ---------------------------------------------------------------------------
\* C25: every status snapshot, whichever event or query produced it
\* (successful, failed, accepted, rejected, GetCentringStatus in any state),
\* holds the two pseudo-motor values beam_x and beam_y.
C25_SnapshotsHoldBeamXY ==
    \A i \in DOMAIN events :
        events[i].ev \in SnapshotNames =>
            /\ Has(events[i].status, "motors")
            /\ {"beam_x", "beam_y"} \subseteq DOMAIN events[i].status.motors

\* ---------------------------------------------------------------------------
\* The pseudo-motors beam_x and beam_y under every calibration of a bounded
\* set

Coords == 0..MaxCoord

\* beam position, zoom centre and non-zero scales as the configuration and
\* the subclass set them
Calibrations ==
    [beam_position : Coords \X Coords,
     zoom_centre : [x : Coords, y : Coords],
     pixels_per_mm_x : 1..MaxScale,
     pixels_per_mm_y : 1..MaxScale]

CalibInit ==
    /\ InitEngine
    /\ calib \in Calibrations
    /\ motor_pos_keys = "objects"
    /\ OtherObjectsInit

\* get_positions: beam_x and beam_y are written into current_motor_positions
get_positions ==
    /\ current_motor_positions' =
         Put(Put(current_motor_positions, "beam_x", beam_x), "beam_y", beam_y)
    /\ UNCHANGED <<engine_vars, calib, motor_pos_keys, door, xfe, moving, mm,
                   current_state>>

\* beam_position_changed: the beamPosChanged signal of the beam info object
beam_position_changed(value) ==
    /\ calib' = [calib EXCEPT !.beam_position = value]
    /\ UNCHANGED <<engine_vars, current_motor_positions, motor_pos_keys,
                   door, xfe, moving, mm, current_state>>

CalibNext ==
    \/ get_positions
    \/ \E value \in Coords \X Coords : beam_position_changed(value)

CalibSpec == CalibInit /\ [][CalibNext]_vars

\* C26: for every calibration of the bounded set (non-zero scales), the
\* beam_x that get_positions returns is (beam position x - zoom centre x)
\* divided by the x scale and beam_y is (beam position y - zoom centre y)
\* divided by the y scale; both are 0 when the beam position is the zoom
\* centre.
C26_BeamXYFromCalibration ==
    [][current_motor_positions' # current_motor_positions =>
          /\ current_motor_positions'["beam_x"] =
               (calib.beam_position[1] - calib.zoom_centre.x)
                   \div calib.pixels_per_mm_x
          /\ current_motor_positions'["beam_y"] =
               (calib.beam_position[2] - calib.zoom_centre.y)
                   \div calib.pixels_per_mm_y
          /\ (calib.beam_position[1] = calib.zoom_centre.x
                /\ calib.beam_position[2] = calib.zoom_centre.y) =>
               /\ current_motor_positions'["beam_x"] = 0
               /\ current_motor_positions'["beam_y"] = 0]_vars

\* ---------------------------------------------------------------------------
\* C27: move_to_motors_positions runs the move as a task of its own and no
\* failure of the move reaches its caller: a move task that times out changes
\* nothing of the centring session, and a move task that has ended, normally
\* or by the timeout exception, is followed only by its completion callback,
\* which clears the reference to the outstanding move and emits an empty
\* progress message.
C27_MoveTaskEndsInCallback ==
    [][\A s \in Sessions :
          /\ (mv[s] # "timeout" /\ mv'[s] = "timeout") =>
                UNCHANGED <<done, proc, centring_status, events,
                            current_centring_method,
                            current_centring_procedure>>
          /\ (mv[s] \in {"ok", "timeout"} /\ mv'[s] # mv[s]) =>
                /\ mv'[s] = "finished"
                /\ move_to_motors_positions_procedure' = 0
                /\ events' = Append(events, progressMessage("", s))
                /\ UNCHANGED <<done, proc, centring_status>>]_vars

\* the completion callback of a move task has just run
C27_Witness ==
    \E s \in Sessions :
        /\ mv[s] = "finished"
        /\ move_to_motors_positions_procedure = 0
        /\ Len(events) > 0
        /\ events[Len(events)] = progressMessage("", s)

\* ---------------------------------------------------------------------------
\* this step is the Start call of session s, and it dispatched a Manual or
\* Automatic procedure
StartDispatched(s) ==
    /\ StartCalled
    /\ call[s].outcome = "none"
    /\ call'[s].outcome = "spawned"
    /\ call'[s].method \in {CENTRING_METHOD_MANUAL, CENTRING_METHOD_AUTO}

\* C28: a Start of Manual or Automatic that is accepted sets the active
\* method to the method started, resets the status to invalid with a fresh
\* start time, emits centringStarted(method) while the procedure task has
\* taken no step, and dispatches exactly one procedure task, whose completion
\* handler runs only once the task has ended.
C28_StartDispatchesOneProcedure ==
    [][\A s \in Sessions : StartDispatched(s) =>
          /\ current_centring_method' = call'[s].method
          /\ centring_status' =
               [valid |-> FALSE, startTime |-> now', angleLimit |-> None]
          /\ now' > now
          /\ \E i \in (Len(events) + 1)..Len(events') :
                events'[i] = centringStarted(call'[s].method, s)
          /\ proc[s] = NoProc
          /\ proc'[s] =
               [method |-> call'[s].method, st |-> "spawned", clicks |-> 0]
          /\ \A r \in Sessions \ {s} : proc'[r] = proc[r]
          /\ current_centring_procedure' = s
          /\ done'[s] = "none"
          /\ done' = done]_vars

\* a Manual procedure was dispatched by Start and has not run yet
C28_Witness ==
    \E s \in Sessions :
        /\ call[s].outcome = "spawned"
        /\ call[s].method = CENTRING_METHOD_MANUAL
        /\ proc[s].st = "spawned"
        /\ current_centring_procedure = s
        /\ current_centring_method = CENTRING_METHOD_MANUAL
        /\ Has(centring_status, "startTime")
        /\ ~centring_status.valid

\* ---------------------------------------------------------------------------
\* the centringSuccessful event that this step emits for session s
SuccessfulEventOf(s) ==
    events'[CHOOSE i \in (Len(events) + 1)..Len(events') :
                events'[i].ev = "centringSuccessful" /\ events'[i].by = s]

CancelCalledWithNoProcedure ==
    /\ nCalls' = nCalls + 1
    /\ current_centring_procedure = 0
    /\ Len(events') = Len(events) + 2
    /\ events'[Len(events) + 1].ev = "centringFailed"
    /\ events'[Len(events')] = progressMessage("", CurrentSession)

\* C30: cancel_centring_method(reject = FALSE) called while no procedure is
\* running does not discard the last result: get_centring_status returns the
\* same status, a previously accepted valid result included, after the call
\* as before it.
C30_CancelKeepsLastResult ==
    [][CancelCalledWithNoProcedure =>
          get_centring_status(centring_status').value =
              get_centring_status(centring_status).value]_vars

\* ---------------------------------------------------------------------------
\* the procedure of session s raised, or was killed by a cancel or a reject
ProcedureFailedOrCancelled(s) ==
    proc[s].st \in {"exc", "killed"} \/ call[s].cancelled # "no"

\* C31: the events of a session are ordered: centringStarted comes before
\* every other event of the session, centringMoving comes before
\* centringSuccessful, and centringMoving is never emitted for a session
\* whose procedure failed or was cancelled.
C31_SessionEventsOrdered ==
    \A s \in Sessions :
        /\ \A i \in DOMAIN events :
              events[i].by = s =>
                  \E j \in 1..i :
                      /\ events[j].ev = "centringStarted"
                      /\ events[j].by = s
                      /\ \A k \in 1..(j - 1) : events[k].by # s
        /\ \A i \in EventsOf(s, "centringSuccessful") :
              \E j \in EventsOf(s, "centringMoving") : j < i
        /\ ProcedureFailedOrCancelled(s) => EventsOf(s, "centringMoving") = {}

\* a session went through centringStarted, centringMoving and
\* centringSuccessful, in that order
C31_Witness ==
    \E s \in Sessions :
        \E i \in EventsOf(s, "centringStarted") :
        \E j \in EventsOf(s, "centringMoving") :
        \E k \in EventsOf(s, "centringSuccessful") : i < j /\ j < k

\* ---------------------------------------------------------------------------
\* this step is cancel_centring_method called with a procedure in the slot:
\* a user call that is no Start and emits nothing
CancelCalledInSession ==
    /\ nCalls' = nCalls + 1
    /\ nStartCalls' = nStartCalls
    /\ events' = events
    /\ current_centring_procedure # 0

\* C32: cancel_centring_method leaves the engine Idle: called with an active
\* session whose procedure task has ended and whose centring_done has nothing
\* left to run (it returned or was ended by an exception), it leaves no
\* session active, so that the next Start is accepted.
C32_CancelLeavesIdle ==
    [][(CancelCalledInSession /\ SessionSettled(current_centring_procedure)) =>
          /\ Idle'
          /\ ~AlreadyInCentring']_vars

\* ---------------------------------------------------------------------------
\* C33: once centringAccepted(FALSE, ...) has been emitted for a session, no
\* centringSuccessful is emitted for that session afterwards, also when
\* reject_centring is called while centring_done is suspended in the
\* relative move of phi.
C33_NoSuccessAfterRejection ==
    \A s \in Sessions :
        \A i \in EventsOf(s, "centringAccepted") :
            ~events[i].accepted =>
                \A k \in EventsOf(s, "centringSuccessful") : k < i

\* ---------------------------------------------------------------------------
\* The centring engine with procedures that key their result by motor object
\* or by motor name

NamedInit ==
    /\ InitEngine
    /\ calib = Calibration
    /\ motor_pos_keys \in {"objects", "names"}
    /\ OtherObjectsInit

NamedSpec == NamedInit /\ [][Next]_vars

\* the target the procedure returned for the motor of role r
ProcedureTarget(r) ==
    IF motor_pos_keys = "names"
    THEN ProcedureResultByName[r]
    ELSE ProcedureResult[motor_hwobj_dict[r]]

\* C34: the motor targets in the snapshot of centringSuccessful are the
\* targets the procedure returned, whether or not the move task spawned by
\* centring_done has begun to rewrite the position map it shares with
\* emit_centring_successful (name keys replaced by motor objects, entries of
\* motors not installed removed), and so the same in plate and non-plate
\* mode.
C34_SnapshotHoldsProcedureTargets ==
    [][\A s \in Sessions :
          (/\ CentringSuccessfulEmitted(s)
           /\ call[s].method \in {CENTRING_METHOD_MANUAL, CENTRING_METHOD_AUTO}) =>
             \A r \in used_motors_list :
                 motor_hwobj_dict[r] # None =>
                     /\ Has(SuccessfulEventOf(s).status.motors, r)
                     /\ SuccessfulEventOf(s).status.motors[r] =
                            ProcedureTarget(r)]_vars

\* ---------------------------------------------------------------------------
\* this step is a call of Start that was accepted: a session begins
SessionBegins == StartCalled /\ nSessions' = nSessions + 1

\* C35: a session never begins while a move task spawned by the session
\* before is outstanding: Start is accepted only when the move to the centred
\* position of the previous session has finished.
C35_NoStartWhileMoveOutstanding ==
    [][SessionBegins => \A s \in Sessions : ~MoveOutstanding(s)]_vars

\* ---------------------------------------------------------------------------
\* C36: a centring status with valid = TRUE holds resolved motor positions:
\* neither accept_centring, in whatever state it is called, nor a Move to
\* beam whose resolver fails leaves a status that is valid and has no motors
\* entry.
C36_ValidStatusHasMotors ==
    centring_status.valid => Has(centring_status, "motors")

\* ---------------------------------------------------------------------------
\* EMBLDoorInterlock (src/EMBL/EMBLDoorInterlock.py)

\* everything of the diffractometer
diffractometer_vars ==
    <<engine_vars, calib_vars, motor_pos_keys, moving, mm, current_state>>

\* the values the two channels deliver and the two conditions are set to
ChannelValues == {0, 1}

\* door_interlock_can_unlock of the door record d
door_interlock_can_unlock(d) == <<d.can_unlock_cond>> = d.can_unlock_cond_value

\* door_is_interlocked of the door record d
door_is_interlocked(d) ==
    <<d.door_interlocked_cond>> = d.door_interlocked_cond_value

\* get_state: the state it stores, emits and returns
get_state(d) ==
    IF ~d.use_door_interlock
    THEN "locked_active"
    ELSE IF door_is_interlocked(d)
         THEN IF door_interlock_can_unlock(d)
              THEN "locked_active"
              ELSE "locked_inactive"
         ELSE "unlocked"

\* can_unlock_cond_changed: the update signal of chanCanUnlockCond
can_unlock_cond_changed(state) ==
    /\ LET d == [door EXCEPT !.can_unlock_cond_value = <<state>>]
       IN door' = [d EXCEPT !.door_interlock_state = get_state(d)]
    /\ UNCHANGED <<diffractometer_vars, xfe>>

\* door_interlock_state_changed: the update signal of chanDoorInterlocked
door_interlock_state_changed(state) ==
    /\ LET d == [door EXCEPT !.door_interlocked_cond_value = <<state>>]
       IN door' = [d EXCEPT !.door_interlock_state = get_state(d)]
    /\ UNCHANGED <<diffractometer_vars, xfe>>

\* unlock_door_interlock: the unlock task is spawned only with the door
\* interlock in use and the door interlocked.  A task remembers what held
\* when it was spawned.
unlock_door_interlock ==
    /\ door.nUnlocks < MaxUnlocks
    /\ door' =
         IF door.use_door_interlock /\ door_is_interlocked(door)
         THEN [door EXCEPT
                 !.nUnlocks = @ + 1,
                 !.tasks = Append(@, [use |-> door.use_door_interlock,
                                      interlocked |-> door_is_interlocked(door)])]
         ELSE [door EXCEPT !.nUnlocks = @ + 1]
    /\ UNCHANGED <<diffractometer_vars, xfe>>

\* unlock_doors_thread that does not test door_interlock_can_unlock
unlock_doors_thread_unconditional(sent_ok) ==
    /\ door.tasks # << >>
    /\ door' =
         IF sent_ok
         THEN [door EXCEPT !.tasks = Tail(@), !.sent = @ + 1]
         ELSE [door EXCEPT !.tasks = Tail(@)]
    /\ UNCHANGED <<diffractometer_vars, xfe>>

\* unlock_doors_thread, the spawned task that was spawned first: with the
\* can-unlock condition it runs before_unlock_actions and sends the
\* break-interlock command (sent_ok), unless one of them raises
unlock_doors_thread(sent_ok) ==
    /\ door.tasks # << >>
    /\ door' =
         IF door_interlock_can_unlock(door) /\ sent_ok
         THEN [door EXCEPT !.tasks = Tail(@), !.sent = @ + 1]
         ELSE [door EXCEPT !.tasks = Tail(@)]
    /\ UNCHANGED <<diffractometer_vars, xfe>>

DoorInit ==
    /\ InitEngine
    /\ calib = Calibration
    /\ motor_pos_keys = "objects"
    /\ xfe = xfe_init
    /\ door \in {door_init(use, can_unlock_cond, door_interlocked_cond) :
                    use \in BOOLEAN,
                    can_unlock_cond \in ChannelValues,
                    door_interlocked_cond \in ChannelValues}

DoorNext ==
    \/ \E state \in ChannelValues : can_unlock_cond_changed(state)
    \/ \E state \in ChannelValues : door_interlock_state_changed(state)
    \/ unlock_door_interlock
    \/ \E sent_ok \in BOOLEAN : unlock_doors_thread(sent_ok)

DoorSpec == DoorInit /\ [][DoorNext]_vars

\* this step is a call of unlock_door_interlock
UnlockCalled == door'.nUnlocks = door.nUnlocks + 1

\* this step sends the break-interlock command
BreakInterlockSent == door'.sent # door.sent

\* C37: the break-interlock command is sent only if the door interlock is in
\* use, the door was interlocked when unlock_door_interlock was called, and
\* the can-unlock condition holds when the spawned unlock task runs; a call
\* with the door interlock not in use or the door not interlocked spawns no
\* task and sends nothing, and a task that runs without the can-unlock
\* condition sends nothing.
C37_BreakInterlockOnlyWhenAllowed ==
    [][/\ BreakInterlockSent =>
            /\ door'.sent = door.sent + 1
            /\ door.tasks # << >>
            /\ door'.tasks = Tail(door.tasks)
            /\ door.use_door_interlock
            /\ Head(door.tasks).use
            /\ Head(door.tasks).interlocked
            /\ <<door.can_unlock_cond>> = door.can_unlock_cond_value
       /\ (UnlockCalled /\ ~(door.use_door_interlock
                              /\ <<door.door_interlocked_cond>> =
                                     door.door_interlocked_cond_value)) =>
            /\ door'.tasks = door.tasks
            /\ door'.sent = door.sent]_vars

\* of two calls of unlock_door_interlock one ended in the break-interlock
\* command and the other did not
C37_Witness ==
    /\ door.sent > 0
    /\ door.nUnlocks = MaxUnlocks
    /\ door.use_door_interlock
    /\ door.tasks = << >>
    /\ door.sent < door.nUnlocks

\* ---------------------------------------------------------------------------
\* C38: whenever the state that get_state published is 'locked_active', a
\* call of unlock_door_interlock made in that state, with no channel update
\* in between, leads to the break-interlock command: the call spawns the
\* unlock task, and the task finds the can-unlock condition that the state
\* announced.
C38_LockedActiveCanBeUnlocked ==
    [][(UnlockCalled /\ door.door_interlock_state = "locked_active") =>
          /\ Len(door'.tasks) = Len(door.tasks) + 1
          /\ <<door.can_unlock_cond>> = door.can_unlock_cond_value]_vars

\* ---------------------------------------------------------------------------
\* XfeSpectrum (src/XfeSpectrum.py)

\* self.emit(name, ...) of XfeSpectrum
xfe_emit(x, name) == [x EXCEPT !.signals = Append(@, name)]

\* the body of spectrumCommandFailed
spectrumCommandFailed_body(x) ==
    [xfe_emit([x EXCEPT !.scanning = FALSE], "xfeSpectrumFailed")
        EXCEPT !.ready_event = TRUE]

\* startXfeSpectrum: when the directory cannot be created the call returns
\* False, otherwise it spawns reallyStartXfeSpectrum
startXfeSpectrum(directory_ok) ==
    /\ xfe.nScans < MaxScans
    /\ xfe.task \in {"none", "ended"}
    /\ xfe' =
         IF directory_ok
         THEN [xfe EXCEPT !.nScans = @ + 1, !.task = "spawned"]
         ELSE [xfe_emit(xfe, "spectrumStatusChanged") EXCEPT
                 !.nScans = @ + 1, !.task = "none"]
    /\ UNCHANGED <<diffractometer_vars, door>>

\* reallyStartXfeSpectrum runs and calls doSpectrum(ct, filename, wait=True)
reallyStartXfeSpectrum ==
    /\ xfe.task = "spawned"
    /\ xfe' = [xfe EXCEPT !.task = "called"]
    /\ UNCHANGED <<diffractometer_vars, door>>

\* spectrumCommandStarted: the commandBeginWaitReply signal of doSpectrum
spectrumCommandStarted ==
    /\ xfe.task = "called"
    /\ xfe' = [xfe_emit([xfe EXCEPT !.scanning = TRUE], "xfeSpectrumStarted")
                 EXCEPT !.task = "scanning"]
    /\ UNCHANGED <<diffractometer_vars, door>>

\* spectrumCommandFailed: the commandFailed signal of doSpectrum
spectrumCommandFailed ==
    /\ xfe.task = "scanning"
    /\ xfe' = [spectrumCommandFailed_body(xfe) EXCEPT !.task = "signalled"]
    /\ UNCHANGED <<diffractometer_vars, door>>

\* cancelXfeSpectrum: doSpectrum.abort() is called only while scanning
cancelXfeSpectrum ==
    /\ ~xfe.aborting
    /\ xfe.task # "none"
    /\ xfe' = [xfe EXCEPT !.aborting = xfe.scanning]
    /\ UNCHANGED <<diffractometer_vars, door>>

\* spectrumCommandAborted: the commandAborted signal of doSpectrum, after
\* cancelXfeSpectrum called abort()
spectrumCommandAborted ==
    /\ xfe.task = "scanning"
    /\ xfe.aborting
    /\ xfe' = [xfe_emit([xfe EXCEPT !.scanning = FALSE], "xfeSpectrumFailed")
                 EXCEPT !.ready_event = TRUE, !.task = "signalled",
                        !.aborting = FALSE]
    /\ UNCHANGED <<diffractometer_vars, door>>

\* doSpectrum returns result and reallyStartXfeSpectrum calls
\* spectrumCommandFinished(result)
spectrumCommandFinished(result) ==
    /\ xfe.task = "scanning"
    /\ xfe' =
         IF result = 0
         THEN [xfe_emit([xfe EXCEPT !.scanning = FALSE], "xfeSpectrumFinished")
                 EXCEPT !.ready_event = TRUE, !.task = "ended",
                        !.aborting = FALSE]
         ELSE [spectrumCommandFailed_body(xfe) EXCEPT
                 !.ready_event = TRUE, !.task = "ended", !.aborting = FALSE]
    /\ UNCHANGED <<diffractometer_vars, door>>

\* doSpectrum raises: the except branch of reallyStartXfeSpectrum logs and
\* calls spectrumStatusChanged
spectrumCommandRaised ==
    /\ xfe.task \in {"called", "scanning", "signalled"}
    /\ xfe' = [xfe_emit(xfe, "spectrumStatusChanged") EXCEPT
                 !.task = "ended", !.aborting = FALSE]
    /\ UNCHANGED <<diffractometer_vars, door>>

XfeInit ==
    /\ InitEngine
    /\ calib = Calibration
    /\ motor_pos_keys = "objects"
    /\ door = door_init(TRUE, 1, 1)
    /\ xfe = xfe_init

XfeNext ==
    \/ \E directory_ok \in BOOLEAN : startXfeSpectrum(directory_ok)
    \/ reallyStartXfeSpectrum
    \/ spectrumCommandStarted
    \/ spectrumCommandFailed
    \/ cancelXfeSpectrum
    \/ spectrumCommandAborted
    \/ \E result \in {0, 1} : spectrumCommandFinished(result)
    \/ spectrumCommandRaised

XfeSpec == XfeInit /\ [][XfeNext]_vars

\* this step ends an acquisition that had started: the task ends after
\* spectrumCommandStarted set scanning
AcquisitionEnds ==
    /\ xfe.task \in {"scanning", "signalled"}
    /\ xfe'.task = "ended"

\* C39: after an XRF spectrum acquisition has started (scanning is true),
\* every way it can end (finished with result 0, finished with another
\* result, command failed, command aborted, exception raised by the spectrum
\* command) leaves scanning false and ready_event set.
C39_EveryEndResetsScanning ==
    [][AcquisitionEnds => (~xfe'.scanning /\ xfe'.ready_event)]_vars

====
